---- MODULE Spec2Model ----
(***************************************************************************)
(* IMAP server of imap_mcp_server: the per-connection session state        *)
(* machine (imap_protocol/session.py), the filesystem mailbox store        *)
(* (mailbox_store/filesystem.py), the response serializer and the message  *)
(* pipeline.  Every connection is one asyncio task; tasks interleave at    *)
(* the awaits of the file operations, so each awaited file operation is    *)
(* one step of the model and the code between two awaits runs in the step  *)
(* of the operation that precedes it.                                      *)
(* The open and the read of a file are one step, and so are the write and  *)
(* the close (the buffered bytes reach the file when it is closed); the     *)
(* metadata JSON has one length for every uidnext the bounds allow.         *)
(***************************************************************************)
EXTENDS Integers, Sequences, FiniteSets, TLC

\* ------------------------------------------------------------------ bounds
Sessions == {"s1", "s2"}
Mailboxes == {"INBOX", "Work"}
Users == {"test"}
Tags == {"A1"}
\* message literals a client sends (sequences of bytes, of different lengths)
Bodies == {<<"a">>, <<"b", "c">>}
\* number of APPEND commands the clients issue in one run
MaxAppends == 3
\* number of processors in a pipeline
MaxProcessors == 2

None == "None"
NoArg == "<missing>"
Paths == Users \X Mailboxes

VARIABLES
    dirs,       \* the mailbox directories that exist: a set of <<user, mailbox>>
    meta,       \* path -> the .metadata.json file of the mailbox
    files,      \* path -> [uid -> content] : the <uid>.eml files of the mailbox
    sess,       \* session -> authenticated, current_user, selected_mailbox, read_only
    task,       \* session -> where its run loop stands and the handler's locals
    wire,       \* the lines the latest step wrote to a connection
    ret,        \* the value the latest step returned from a store call
    userdirs,   \* the users whose directory exists
    returned,   \* path -> the <<uid, content>> of the append_message calls that
                \* returned since the mailbox was created, and how many they are
                \* (a call whose mailbox was deleted under it is not counted)
    epochs,     \* path -> the uidvalidity values of the deleted mailboxes of that name
    lastSelect, \* session -> the mailbox its latest successful SELECT/EXAMINE named
    nAppends,   \* calls of append_message so far
    processors, \* the processors the server's pipeline was built with, in order
    auth        \* a call of AuthManager.authenticate: its arguments and its value

vars == <<dirs, userdirs, meta, files, sess, task, wire, ret, returned, epochs, lastSelect,
          nAppends, processors, auth>>

\* ------------------------------------------------------- files of the store
AbsentMeta == [st |-> "absent", uidnext |-> 0, uidvalidity |-> 0]
\* the file after open(path, 'w') and before the buffered write reaches it
EmptyMeta == [st |-> "empty", uidnext |-> 0, uidvalidity |-> 0]
JsonMeta(n, v) == [st |-> "json", uidnext |-> n, uidvalidity |-> v]

\* _read_metadata's value when the metadata file does not exist
DefaultMetadata == [uidnext |-> 1, uidvalidity |-> 1]

\* what create_mailbox writes into a new metadata file
InitialMetadata == [uidnext |-> 1, uidvalidity |-> 1]

NoFiles == [k \in {} |-> <<>>]

\* a write of `new` at offset 0 of a file holding `old` (no truncation by the
\* write itself: the truncation happened when the writer opened the file)
Overwrite_short(old, new) ==
    IF Len(new) >= Len(old) THEN SubSeq(new, 1, Len(new) - 1)
    ELSE SubSeq(new, 1, Len(new) - 1) \o SubSeq(old, Len(new), Len(old))

Overwrite(old, new) ==
    IF Len(new) >= Len(old) THEN new
    ELSE new \o SubSeq(old, Len(new) + 1, Len(old))

\* ------------------------------------------------------------- serializer
IMAPResponseSerializer_ok(tag, message) == <<tag>> \o message
IMAPResponseSerializer_bad(tag, message) == <<tag>> \o message
IMAPResponseSerializer_untagged_ok(message) == <<"*">> \o message

\* -------------------------------------------------------------- pipeline
ProcessedBy == "X-Processed-By: DummyProcessor\r\n"
DummyProcessor_process(message_data) ==
    [message_data EXCEPT !.content = <<ProcessedBy>> \o @]

\* The processors a pipeline can be built with: the DummyProcessor of the
\* repository, and two plug-ins that raise on every call, one before it
\* touches the dict it was given and one after it has written the content
\* into it (the way DummyProcessor writes it).
ProcessorKinds == {"DummyProcessor", "RaisingProcessor", "WriteThenRaiseProcessor"}
Written == "X-Written: 1\r\n"

\* one call processor.process(message_data): the dict as the call leaves it
\* (message_data is passed by reference and written in place) and whether
\* the call raised
BaseProcessor_process(name, message_data) ==
    CASE name = "DummyProcessor" ->
            [data |-> DummyProcessor_process(message_data), raised |-> FALSE]
      [] name = "RaisingProcessor" ->
            [data |-> message_data, raised |-> TRUE]
      [] OTHER ->
            [data |-> [message_data EXCEPT !.content = <<Written>> \o @], raised |-> TRUE]

\* the loop of process_message over the processors ps: processed_data names
\* the dict the caller passed, which every call has written into; the
\* except clause logs and goes on to the next processor
RECURSIVE RunProcessors(_, _, _)
RunProcessors(ps, processed_data, invoked) ==
    IF ps = <<>> THEN [data |-> processed_data, invoked |-> invoked]
    ELSE LET call == BaseProcessor_process(Head(ps), processed_data)
         IN RunProcessors(Tail(ps), call.data, Append(invoked, Head(ps)))

MCPPipeline_process_message(message_data) ==
    RunProcessors(processors, message_data, <<>>).data

\* ------------------------------------------------------------------ auth
\* a mechanism name is the sequence of its characters
PLAIN == <<"P", "L", "A", "I", "N">>

\* str.upper() and str.lower() of one character, for the letters the
\* mechanism names are written with
upper_char(c) ==
    CASE c = "p" -> "P" [] c = "l" -> "L" [] c = "a" -> "A" [] c = "i" -> "I"
      [] c = "n" -> "N" [] c = "o" -> "O" [] c = "g" -> "G" [] c = "x" -> "X"
      [] OTHER -> c
lower_char(c) ==
    CASE c = "P" -> "p" [] c = "L" -> "l" [] c = "A" -> "a" [] c = "I" -> "i"
      [] c = "N" -> "n" [] c = "O" -> "o" [] c = "G" -> "g" [] c = "X" -> "x"
      [] OTHER -> c
upper(word) == [i \in 1..Len(word) |-> upper_char(word[i])]

PlainAuthBackend_authenticate(username, password) ==
    username = "test" /\ password = "test"

\* register_backend keeps the backend under name.upper(); __init__ registers
\* the one PlainAuthBackend
register_backend(name) == upper(name)
AuthManager_backends == {register_backend(PLAIN)}

\* self._backends.get(mechanism) in place of get(mechanism.upper())
AuthManager_authenticate_exact(mechanism, username, password) ==
    IF mechanism \in AuthManager_backends
    THEN PlainAuthBackend_authenticate(username, password)
    ELSE FALSE

AuthManager_authenticate(mechanism, username, password) ==
    IF upper(mechanism) \in AuthManager_backends
    THEN PlainAuthBackend_authenticate(username, password)
    ELSE FALSE

\* no call of authenticate from outside a session
NoAuth == [called |-> FALSE, mechanism |-> <<>>, username |-> "", password |-> "",
           result |-> FALSE]

\* ------------------------------------------------------------ task record
IdleTask ==
    [pc |-> "idle", cmd |-> "-", tag |-> "-", path |-> <<"-", "-">>,
     content |-> <<>>, md |-> [uidnext |-> 0, uidvalidity |-> 0], uid |-> 0,
     live |-> FALSE, solo |-> FALSE, item |-> "-", items |-> <<>>]
NewTask == [IdleTask EXCEPT !.pc = "new"]
ClosedTask == [IdleTask EXCEPT !.pc = "closed"]

NoWire == [to |-> "-", lines |-> <<>>]
NoRet == [op |-> "-", by |-> "-", path |-> <<"-", "-">>, uid |-> 0,
          content |-> <<>>, solo |-> FALSE]

\* the state when the server has started and the clients have connected
InitState ==
    /\ dirs = {}
    /\ userdirs = {}
    /\ meta = [p \in Paths |-> AbsentMeta]
    /\ files = [p \in Paths |-> NoFiles]
    /\ sess = [s \in Sessions |->
                 [authenticated |-> FALSE, current_user |-> None,
                  selected_mailbox |-> None, read_only |-> FALSE]]
    /\ task = [s \in Sessions |-> NewTask]
    /\ wire = NoWire
    /\ ret = NoRet
    /\ returned = [p \in Paths |-> [msgs |-> {}, calls |-> 0]]
    /\ epochs = [p \in Paths |-> {}]
    /\ lastSelect = [s \in Sessions |-> None]
    /\ nAppends = 0

\* server.py configures the one DummyProcessor
Init == InitState /\ processors = <<"DummyProcessor">> /\ auth = NoAuth

\* ---------------------------------------------------------- step plumbing
NoPath == <<"-", "-">>

\* session s moves to task t; a file another task holds open in the mailbox
\* `gone` is unlinked under it; the other tasks' calls are no longer alone
Step(s, t, gone) ==
    /\ task' = [x \in Sessions |->
                  IF x = s THEN t
                  ELSE [task[x] EXCEPT !.solo = FALSE,
                                       !.live = @ /\ task[x].path # gone]]
    /\ UNCHANGED <<processors, auth>>

Wire(s, lines) == IF lines = <<>> THEN NoWire ELSE [to |-> s, lines |-> lines]

\* the handler awaits: the task is suspended at t.pc
Yield(s, t, lines) ==
    /\ Step(s, t, NoPath)
    /\ wire' = Wire(s, lines)
    /\ ret' = NoRet

\* the handler returns to the run loop, which reads the next line
Finish(s, lines) == Yield(s, IdleTask, lines)

\* an exception that leaves run() ends the server process: every connection
\* is closed
Crash_processFatal(s) ==
    /\ task' = [x \in Sessions |-> ClosedTask]
    /\ UNCHANGED <<processors, auth>>
    /\ wire' = NoWire
    /\ ret' = NoRet

\* an exception that is no ValueError reaches run(): the loop breaks and the
\* connection is closed
Crash(s) == Yield(s, ClosedTask, <<>>)

\* a ValueError raised inside handle_command is caught by the handler of parse
\* errors in run(): the line holds a space, so its first word is answered
JsonDecodeError == <<"Expecting", "value:", "line", "1", "column", "1", "(char", "0)">>
ValueErrorInHandler(s, tag, e) == Finish(s, <<IMAPResponseSerializer_bad(tag, e)>>)

Idle(s) == task[s].pc = "idle"
At(s, pc) == task[s].pc = pc
PathOf(s, m) == <<sess[s].current_user, m>>

UNCHANGED_store == UNCHANGED <<dirs, userdirs, meta, files>>
UNCHANGED_ghost == UNCHANGED <<returned, epochs, lastSelect, nAppends>>

\* ------------------------------------------------------------ run, LOGIN
Greet(s) ==
    /\ At(s, "new")
    /\ Finish(s, <<IMAPResponseSerializer_untagged_ok(<<"IMAP4rev1", "Service", "Ready">>)>>)
    /\ UNCHANGED <<sess>>
    /\ UNCHANGED_store /\ UNCHANGED_ghost

LoginNames == {"test", "eve"}
Passwords == {"test", "bad"}

handle_login(s, tag, username, password) ==
    /\ Idle(s)
    /\ IF username = NoArg
       THEN /\ Finish(s, <<IMAPResponseSerializer_bad(tag,
                     <<"LOGIN", "requires", "username", "and", "password">>)>>)
            /\ UNCHANGED sess
       ELSE IF AuthManager_authenticate(PLAIN, username, password)
       THEN /\ sess' = [sess EXCEPT ![s].authenticated = TRUE,
                                    ![s].current_user = username]
            /\ Finish(s, <<IMAPResponseSerializer_ok(tag, <<"LOGIN", "completed">>)>>)
       ELSE /\ Finish(s, <<IMAPResponseSerializer_bad(tag,
                     <<"LOGIN", "failed:", "Invalid", "credentials">>)>>)
            /\ UNCHANGED sess
    /\ UNCHANGED_store /\ UNCHANGED_ghost


\* ------------------------------------------- store: metadata, create, append
\* what follows `metadata = await self._read_metadata(mailbox_path)` in the
\* caller: append_message allocates the uid, get_mailbox_status lists the
\* directory
AfterReadMetadata(s, t, md, lines) ==
    IF t.cmd = "APPEND"
    THEN Yield(s, [t EXCEPT !.uid = md.uidnext,
                            !.md = [md EXCEPT !.uidnext = @ + 1],
                            !.pc = "wm_open"], lines)
    ELSE Yield(s, [t EXCEPT !.md = md, !.pc = "gs_listdir"], lines)

\* _read_metadata up to its first await: the file is looked for now (in the
\* store as this step leaves it, metaNow) and opened in the next step
FilesystemMailboxStore_read_metadata(s, t, metaNow, lines) ==
    IF metaNow[t.path].st # "absent"
    THEN Yield(s, [t EXCEPT !.pc = "rm_open"], lines)
    ELSE AfterReadMetadata(s, t, DefaultMetadata, lines)

\* create_mailbox has returned `success` to handle_create or to append_message
AfterCreateMailbox(s, t, success, metaNow) ==
    IF t.cmd = "CREATE"
    THEN Finish(s, IF success
                   THEN <<IMAPResponseSerializer_ok(t.tag, <<"CREATE", "completed">>)>>
                   ELSE <<IMAPResponseSerializer_bad(t.tag,
                            <<"CREATE", "failed:", "Could", "not", "create",
                              "mailbox", t.path[2]>>)>>)
    ELSE FilesystemMailboxStore_read_metadata(s, t, metaNow, <<>>)

\* create_mailbox up to its first await: makedirs, and the metadata file is
\* opened for writing only if it does not exist
FilesystemMailboxStore_create_mailbox(s, t, lines) ==
    /\ dirs' = dirs \cup {t.path}
    /\ userdirs' = userdirs \cup {t.path[1]}
    /\ IF meta[t.path].st = "absent"
       THEN Yield(s, [t EXCEPT !.pc = "cm_open"], lines)
       ELSE AfterCreateMailbox(s, t, TRUE, meta)

handle_create(s, tag, m) ==
    /\ Idle(s)
    /\ IF ~sess[s].authenticated
       THEN /\ Finish(s, <<IMAPResponseSerializer_bad(tag,
                     <<"CREATE", "failed:", "Not", "authenticated">>)>>)
            /\ UNCHANGED <<dirs, userdirs>>
       ELSE IF m = NoArg
       THEN /\ Finish(s, <<IMAPResponseSerializer_bad(tag,
                     <<"CREATE", "requires", "a", "mailbox", "name">>)>>)
            /\ UNCHANGED <<dirs, userdirs>>
       ELSE FilesystemMailboxStore_create_mailbox(s,
                [IdleTask EXCEPT !.cmd = "CREATE", !.tag = tag, !.path = PathOf(s, m)],
                <<>>)
    /\ UNCHANGED <<meta, files, sess>>
    /\ UNCHANGED_ghost

\* create_mailbox: aiofiles.open(metadata_path, 'w') runs. A missing directory
\* raises inside the try: create_mailbox returns False
cm_open(s) ==
    /\ At(s, "cm_open")
    /\ LET t == task[s] IN
       IF t.path \notin dirs
       THEN /\ AfterCreateMailbox(s, t, FALSE, meta)
            /\ UNCHANGED meta
       ELSE /\ meta' = [meta EXCEPT ![t.path] = EmptyMeta]
            /\ Yield(s, [t EXCEPT !.pc = "cm_write", !.live = TRUE], <<>>)
    /\ UNCHANGED <<dirs, userdirs, files, sess>>
    /\ UNCHANGED_ghost

\* create_mailbox: the write and the close of the metadata file run; the bytes
\* reach the file the task opened, which a later delete may have unlinked
cm_write(s) ==
    /\ At(s, "cm_write")
    /\ LET t == task[s]
           metaNow == IF t.live
                      THEN [meta EXCEPT ![t.path] =
                              JsonMeta(InitialMetadata.uidnext, InitialMetadata.uidvalidity)]
                      ELSE meta
       IN /\ meta' = metaNow
          /\ AfterCreateMailbox(s, [t EXCEPT !.live = FALSE], TRUE, metaNow)
    /\ UNCHANGED <<dirs, userdirs, files, sess>>
    /\ UNCHANGED_ghost

\* _read_metadata: the open and the read of the metadata file run
rm_open(s) ==
    /\ At(s, "rm_open")
    /\ LET t == task[s]
           f == meta[t.path] IN
       CASE f.st = "absent" -> Crash(s)                       \* FileNotFoundError
         [] f.st = "empty" -> ValueErrorInHandler(s, t.tag, JsonDecodeError)
         [] OTHER -> AfterReadMetadata(s, t,
                        [uidnext |-> f.uidnext, uidvalidity |-> f.uidvalidity], <<>>)
    /\ UNCHANGED <<sess>>
    /\ UNCHANGED_store /\ UNCHANGED_ghost

\* _write_metadata: aiofiles.open(metadata_path, 'w') runs
wm_open(s) ==
    /\ At(s, "wm_open")
    /\ LET t == task[s] IN
       IF t.path \notin dirs
       THEN /\ Crash(s)
            /\ UNCHANGED meta
       ELSE /\ meta' = [meta EXCEPT ![t.path] = EmptyMeta]
            /\ Yield(s, [t EXCEPT !.pc = "wm_write", !.live = TRUE], <<>>)
    /\ UNCHANGED <<dirs, userdirs, files, sess>>
    /\ UNCHANGED_ghost

\* _write_metadata: the write and the close run; append_message goes on to
\* open the message file
wm_write(s) ==
    /\ At(s, "wm_write")
    /\ LET t == task[s] IN
       /\ meta' = IF t.live
                  THEN [meta EXCEPT ![t.path] = JsonMeta(t.md.uidnext, t.md.uidvalidity)]
                  ELSE meta
       /\ Yield(s, [t EXCEPT !.pc = "mf_open", !.live = FALSE], <<>>)
    /\ UNCHANGED <<dirs, userdirs, files, sess>>
    /\ UNCHANGED_ghost

\* the files of a mailbox with <uid>.eml set to content
WithFile(fs, uid, content) ==
    [k \in DOMAIN fs \cup {uid} |-> IF k = uid THEN content ELSE fs[k]]

\* append_message: aiofiles.open(message_file, 'wb') runs: the file is created
\* or truncated
mf_open(s) ==
    /\ At(s, "mf_open")
    /\ LET t == task[s] IN
       IF t.path \notin dirs
       THEN /\ Crash(s)
            /\ UNCHANGED files
       ELSE /\ files' = [files EXCEPT ![t.path] = WithFile(@, t.uid, <<>>)]
            /\ Yield(s, [t EXCEPT !.pc = "mf_write", !.live = TRUE], <<>>)
    /\ UNCHANGED <<dirs, userdirs, meta, sess>>
    /\ UNCHANGED_ghost

\* the tagged line handle_append sends for the uid append_message returned
AppendReply(tag, uid) ==
    IF uid # 0
    THEN IMAPResponseSerializer_ok(tag, <<"APPEND", "completed", "[UID", ToString(uid) \o "]">>)
    ELSE IMAPResponseSerializer_bad(tag, <<"APPEND", "failed">>)

\* append_message: the write and the close of the message file run,
\* append_message returns the uid and handle_append answers
mf_write(s) ==
    /\ At(s, "mf_write")
    /\ LET t == task[s] IN
       /\ files' = IF t.live
                   THEN [files EXCEPT ![t.path] =
                           WithFile(@, t.uid, Overwrite(@[t.uid], t.content))]
                   ELSE files
       /\ Step(s, IdleTask, NoPath)
       /\ wire' = Wire(s, <<AppendReply(t.tag, t.uid)>>)
       /\ ret' = [op |-> "append_message", by |-> s, path |-> t.path, uid |-> t.uid,
                  content |-> t.content, solo |-> t.solo]
       /\ returned' = IF t.live
                      THEN [returned EXCEPT ![t.path] =
                              [msgs |-> @.msgs \cup {<<t.uid, t.content>>},
                               calls |-> @.calls + 1]]
                      ELSE returned
    /\ UNCHANGED <<dirs, userdirs, meta, sess, epochs, lastSelect, nAppends>>

\* append_message up to its first await
FilesystemMailboxStore_append_message(s, t, lines) ==
    IF t.path \notin dirs
    THEN FilesystemMailboxStore_create_mailbox(s, t, lines)
    ELSE /\ FilesystemMailboxStore_read_metadata(s, t, meta, lines)
         /\ UNCHANGED <<dirs, userdirs>>

\* handle_append from the literal (or the inline argument) on: the pipeline,
\* then the call of append_message
AppendContent(s, t, message_content, lines) ==
    LET processed_message_data ==
            MCPPipeline_process_message(
                [content |-> message_content, mailbox |-> t.path[2], user |-> t.path[1]])
    IN FilesystemMailboxStore_append_message(s,
           [t EXCEPT !.content = processed_message_data.content, !.solo = TRUE], lines)

\* APPEND mailbox {N} (literal = TRUE) or APPEND mailbox text
handle_append(s, tag, m, literal, text) ==
    /\ Idle(s)
    /\ nAppends' = IF sess[s].authenticated /\ m # NoArg THEN nAppends + 1 ELSE nAppends
    /\ IF ~sess[s].authenticated
       THEN /\ Finish(s, <<IMAPResponseSerializer_bad(tag,
                     <<"APPEND", "failed:", "Not", "authenticated">>)>>)
            /\ UNCHANGED <<dirs, userdirs>>
       ELSE IF m = NoArg
       THEN /\ Finish(s, <<IMAPResponseSerializer_bad(tag,
                     <<"APPEND", "requires", "mailbox", "and", "literal">>)>>)
            /\ UNCHANGED <<dirs, userdirs>>
       ELSE LET t == [IdleTask EXCEPT !.cmd = "APPEND", !.tag = tag, !.path = PathOf(s, m)]
            IN IF literal
               THEN /\ Yield(s, [t EXCEPT !.pc = "ap_literal"], <<<<"+">>>>)
                    /\ UNCHANGED <<dirs, userdirs>>
               ELSE AppendContent(s, t, text, <<>>)
    /\ UNCHANGED <<meta, files, sess, returned, epochs, lastSelect>>

\* handle_append: readexactly(size + 2) returns the literal and its CRLF
ap_literal(s, body) ==
    /\ At(s, "ap_literal")
    /\ AppendContent(s, task[s], SubSeq(body \o <<"\r", "\n">>, 1, Len(body)), <<>>)
    /\ UNCHANGED <<meta, files, sess>>
    /\ UNCHANGED_ghost

\* the connection reaches EOF inside the literal: the bytes read so far are
\* taken for the literal and the APPEND goes on with them
ap_eof_partial(s) ==
    /\ At(s, "ap_literal")
    /\ AppendContent(s, task[s], <<>>, <<>>)
    /\ UNCHANGED <<meta, files, sess>>
    /\ UNCHANGED_ghost

\* handle_append: the connection reaches EOF before readexactly(size + 2) has
\* its bytes; the IncompleteReadError makes run() leave its loop and close
\* the connection
ap_eof(s) ==
    /\ At(s, "ap_literal")
    /\ Yield(s, [ClosedTask EXCEPT !.cmd = "APPEND", !.path = task[s].path], <<>>)
    /\ UNCHANGED sess
    /\ UNCHANGED_store /\ UNCHANGED_ghost

\* ------------------------------------------------------------ store: delete
\* delete_mailbox runs without an await: every file, then the directory
FilesystemMailboxStore_delete_mailbox(p) ==
    /\ dirs' = dirs \ {p}
    /\ meta' = [meta EXCEPT ![p] = AbsentMeta]
    /\ files' = [files EXCEPT ![p] = NoFiles]

\* the uidvalidity get_mailbox_status reports for an existing mailbox
ReportedUidvalidity(p) ==
    IF meta[p].st = "json" THEN meta[p].uidvalidity ELSE DefaultMetadata.uidvalidity

\* task x has an open(..., 'w') of a file that does not exist yet running in
\* its thread
CreatesFile(x, p) ==
    /\ task[x].path = p
    /\ \/ task[x].pc \in {"cm_open", "wm_open"} /\ meta[p].st = "absent"
       \/ task[x].pc = "mf_open" /\ task[x].uid \notin DOMAIN files[p]

\* delete_mailbox while the thread of task x creates a file in the directory
\* after os.walk has listed it: the listed files are removed, os.rmdir raises
\* on the directory that is not empty, and delete_mailbox returns False
DeleteRaced(s, x, p) ==
    /\ meta' = [meta EXCEPT ![p] =
                  IF task[x].pc = "mf_open" THEN AbsentMeta ELSE EmptyMeta]
    /\ files' = [files EXCEPT ![p] =
                   IF task[x].pc = "mf_open" THEN WithFile(NoFiles, task[x].uid, <<>>)
                   ELSE NoFiles]
    /\ task' = [y \in Sessions |->
                  IF y = s THEN IdleTask
                  ELSE IF y = x
                  THEN [task[x] EXCEPT !.solo = FALSE, !.live = TRUE,
                          !.pc = CASE task[x].pc = "cm_open" -> "cm_write"
                                   [] task[x].pc = "wm_open" -> "wm_write"
                                   [] OTHER -> "mf_write"]
                  ELSE [task[y] EXCEPT !.solo = FALSE,
                                       !.live = @ /\ task[y].path # p]]
    /\ UNCHANGED <<dirs, processors, auth>>

handle_delete(s, tag, m) ==
    /\ Idle(s)
    /\ IF ~sess[s].authenticated
       THEN /\ Finish(s, <<IMAPResponseSerializer_bad(tag,
                     <<"DELETE", "failed:", "Not", "authenticated">>)>>)
            /\ UNCHANGED <<dirs, meta, files, returned, epochs>>
       ELSE IF m = NoArg
       THEN /\ Finish(s, <<IMAPResponseSerializer_bad(tag,
                     <<"DELETE", "requires", "a", "mailbox", "name">>)>>)
            /\ UNCHANGED <<dirs, meta, files, returned, epochs>>
       ELSE IF PathOf(s, m) \in dirs
       THEN /\ \/ /\ FilesystemMailboxStore_delete_mailbox(PathOf(s, m))
                  /\ Step(s, IdleTask, PathOf(s, m))
                  /\ wire' = Wire(s, <<IMAPResponseSerializer_ok(tag,
                                         <<"DELETE", "completed">>)>>)
                  /\ epochs' = [epochs EXCEPT ![PathOf(s, m)] =
                                  @ \cup {ReportedUidvalidity(PathOf(s, m))}]
               \/ /\ \E x \in Sessions \ {s} :
                        CreatesFile(x, PathOf(s, m)) /\ DeleteRaced(s, x, PathOf(s, m))
                  /\ wire' = Wire(s, <<IMAPResponseSerializer_bad(tag,
                        <<"DELETE", "failed:", "Could", "not", "delete", "mailbox", m>>)>>)
                  /\ UNCHANGED epochs
            /\ ret' = NoRet
            /\ returned' = [returned EXCEPT ![PathOf(s, m)] = [msgs |-> {}, calls |-> 0]]
       ELSE /\ Finish(s, <<IMAPResponseSerializer_bad(tag,
                     <<"DELETE", "failed:", "Could", "not", "delete", "mailbox", m>>)>>)
            /\ UNCHANGED <<dirs, meta, files, returned, epochs>>
    /\ UNCHANGED <<userdirs, sess, lastSelect, nAppends>>

\* ------------------------------------------- SELECT, EXAMINE, STATUS
\* the uids of a set in descending order
RECURSIVE sorted_reverse(_)
sorted_reverse(uids) ==
    IF uids = {} THEN <<>>
    ELSE LET most == CHOOSE k \in uids : \A j \in uids : j <= k
         IN <<most>> \o sorted_reverse(uids \ {most})

\* the uids of a set in ascending order
RECURSIVE sorted(_)
sorted(uids) ==
    IF uids = {} THEN <<>>
    ELSE LET least == CHOOSE k \in uids : \A j \in uids : k <= j
         IN <<least>> \o sorted(uids \ {least})

\* get_mailbox_status up to its first await
FilesystemMailboxStore_get_mailbox_status(s, t, notFound) ==
    IF t.path \notin dirs
    THEN Finish(s, <<IMAPResponseSerializer_bad(t.tag, notFound)>>)
    ELSE FilesystemMailboxStore_read_metadata(s, t, meta, <<>>)

SelectOrExamine(s, tag, m, cmd) ==
    /\ Idle(s)
    /\ IF ~sess[s].authenticated
       THEN Finish(s, <<IMAPResponseSerializer_bad(tag,
                     <<cmd, "failed:", "Not", "authenticated">>)>>)
       ELSE IF m = NoArg
       THEN Finish(s, <<IMAPResponseSerializer_bad(tag,
                     <<cmd, "requires", "a", "mailbox", "name">>)>>)
       ELSE FilesystemMailboxStore_get_mailbox_status(s,
                [IdleTask EXCEPT !.cmd = cmd, !.tag = tag, !.path = PathOf(s, m),
                                 !.solo = TRUE],
                <<cmd, "failed:", "Mailbox", m, "not", "found">>)
    /\ UNCHANGED sess
    /\ UNCHANGED_store /\ UNCHANGED_ghost

handle_select(s, tag, m) == SelectOrExamine(s, tag, m, "SELECT")
handle_examine(s, tag, m) == SelectOrExamine(s, tag, m, "EXAMINE")

\* the words of "(" + ' '.join(response_parts) + ")"
RECURSIVE StatusParts(_, _)
StatusParts(items, status) ==
    IF items = <<>> THEN <<>>
    ELSE LET item == Head(items)
             part == CASE item = "MESSAGES" -> <<"MESSAGES", ToString(status.messages)>>
                       [] item = "RECENT" -> <<"RECENT", ToString(status.recent)>>
                       [] item = "UIDNEXT" -> <<"UIDNEXT", ToString(status.uidnext)>>
                       [] item = "UIDVALIDITY" -> <<"UIDVALIDITY", ToString(status.uidvalidity)>>
                       [] item = "UNSEEN" -> <<"UNSEEN", ToString(status.unseen)>>
                       [] OTHER -> <<>>
         IN part \o StatusParts(Tail(items), status)

Parenthesised(words) ==
    IF words = <<>> THEN <<"()">>
    ELSE IF Len(words) = 1 THEN <<"(" \o words[1] \o ")">>
    ELSE <<"(" \o words[1]>> \o SubSeq(words, 2, Len(words) - 1)
           \o <<words[Len(words)] \o ")">>

\* STATUS mailbox (items): the parser splits the item list at its spaces
\* unless the client quotes it
StatusArgs(m, items, quoted) ==
    IF quoted \/ items = <<>> THEN 2 ELSE 1 + Len(items)

handle_status(s, tag, m, items, quoted) ==
    /\ Idle(s)
    /\ IF ~sess[s].authenticated
       THEN Finish(s, <<IMAPResponseSerializer_bad(tag,
                     <<"STATUS", "failed:", "Not", "authenticated">>)>>)
       ELSE IF m = NoArg \/ StatusArgs(m, items, quoted) # 2
       THEN Finish(s, <<IMAPResponseSerializer_bad(tag,
                     <<"STATUS", "requires", "a", "mailbox", "name", "and", "a",
                       "list", "of", "items">>)>>)
       ELSE FilesystemMailboxStore_get_mailbox_status(s,
                [IdleTask EXCEPT !.cmd = "STATUS", !.tag = tag, !.path = PathOf(s, m),
                                 !.items = items],
                <<"STATUS", "failed:", "Mailbox", m, "not", "found">>)
    /\ UNCHANGED sess
    /\ UNCHANGED_store /\ UNCHANGED_ghost

SelectLines(t, status) ==
    << IMAPResponseSerializer_untagged_ok(
           <<IF t.cmd = "SELECT" THEN "[READ-WRITE]" ELSE "[READ-ONLY]", t.path[2], "selected">>),
       IMAPResponseSerializer_untagged_ok(<<ToString(status.messages), "EXISTS">>),
       IMAPResponseSerializer_untagged_ok(<<ToString(status.recent), "RECENT">>),
       IMAPResponseSerializer_untagged_ok(
           <<"OK", "[UIDVALIDITY", ToString(status.uidvalidity) \o "]", "UIDVALIDITY">>),
       IMAPResponseSerializer_untagged_ok(
           <<"OK", "[UIDNEXT", ToString(status.uidnext) \o "]", "UIDNEXT">>),
       IMAPResponseSerializer_ok(t.tag, <<t.cmd, "completed">>) >>

StatusLines(t, status) ==
    << IMAPResponseSerializer_untagged_ok(
           <<"*", "STATUS", t.path[2]>> \o Parenthesised(StatusParts(t.items, status))),
       IMAPResponseSerializer_ok(t.tag, <<"STATUS", "completed">>) >>

\* the session after a SELECT or EXAMINE that found the mailbox
Selected_readWrite(session, t) ==
    [session EXCEPT !.selected_mailbox = t.path[2], !.read_only = FALSE]

Selected(session, t) ==
    [session EXCEPT !.selected_mailbox = t.path[2], !.read_only = (t.cmd = "EXAMINE")]

\* get_mailbox_status: os.listdir runs in its thread, the status is returned
\* and handle_select, handle_examine or handle_status goes on with it
gs_listdir(s) ==
    /\ At(s, "gs_listdir")
    /\ LET t == task[s]
           status == [messages |-> Cardinality(DOMAIN files[t.path]),
                      uidnext |-> t.md.uidnext, uidvalidity |-> t.md.uidvalidity,
                      unseen |-> 0, recent |-> 0]
       IN IF t.path \notin dirs
          THEN /\ Crash(s)
               /\ UNCHANGED <<sess, lastSelect>>
          ELSE IF t.cmd = "STATUS"
          THEN /\ Finish(s, StatusLines(t, status))
               /\ UNCHANGED <<sess, lastSelect>>
          ELSE /\ sess' = [sess EXCEPT ![s] = Selected(@, t)]
               /\ lastSelect' = [lastSelect EXCEPT ![s] = t.path[2]]
               /\ Finish(s, SelectLines(t, status))
    /\ UNCHANGED_store
    /\ UNCHANGED <<returned, epochs, nAppends>>

\* ------------------------------------------------------------ FETCH, SEARCH
\* int(uid_or_seq) of the words a client sends as the message number
UidWords == {ToString(k) : k \in 1..MaxAppends} \cup {"x"}
IsInt(word) == \E k \in 1..MaxAppends : ToString(k) = word
IntOf(word) == CHOOSE k \in 1..MaxAppends : ToString(k) = word
FetchItems == {"BODY[]", "UID", "FLAGS"}

\* what a get_message call that runs with no other call in between returns:
\* the record of the message, or the empty dict
FilesystemMailboxStore_get_message(p, uid) ==
    IF uid \in DOMAIN files[p]
    THEN [found |-> TRUE, uid |-> uid, content |-> files[p][uid], flags |-> <<>>]
    ELSE [found |-> FALSE, uid |-> 0, content |-> <<>>, flags |-> <<>>]

handle_fetch(s, tag, uid_or_seq, fetch_item) ==
    /\ Idle(s)
    /\ IF ~sess[s].authenticated \/ sess[s].selected_mailbox = None
       THEN Finish(s, <<IMAPResponseSerializer_bad(tag,
                <<"FETCH", "failed:", "Not", "authenticated", "or", "no", "mailbox",
                  "selected">>)>>)
       ELSE IF uid_or_seq = NoArg \/ fetch_item = NoArg
       THEN Finish(s, <<IMAPResponseSerializer_bad(tag,
                <<"FETCH", "requires", "message", "sequence/UID", "set", "and", "data",
                  "items">>)>>)
       ELSE IF ~IsInt(uid_or_seq)
       THEN Finish(s, <<IMAPResponseSerializer_bad(tag,
                <<"FETCH", "failed:", "Invalid", "message", "sequence/UID">>)>>)
       ELSE LET p == PathOf(s, sess[s].selected_mailbox)
                uid == IntOf(uid_or_seq)
            IN \* get_message up to its first await
               IF ~FilesystemMailboxStore_get_message(p, uid).found
               THEN Finish(s, <<IMAPResponseSerializer_bad(tag,
                        <<"FETCH", "failed:", "Message", ToString(uid), "not", "found">>)>>)
               ELSE Yield(s, [IdleTask EXCEPT !.cmd = "FETCH", !.tag = tag, !.path = p,
                                              !.uid = uid, !.item = fetch_item,
                                              !.pc = "gm_open"], <<>>)
    /\ UNCHANGED sess
    /\ UNCHANGED_store /\ UNCHANGED_ghost

\* get_message: the open and the read of the message file run, the record is
\* returned and handle_fetch answers
gm_open(s) ==
    /\ At(s, "gm_open")
    /\ LET t == task[s] IN
       IF t.uid \notin DOMAIN files[t.path]
       THEN /\ Crash(s)
       ELSE LET content == FilesystemMailboxStore_get_message(t.path, t.uid).content IN
            /\ Step(s, IdleTask, NoPath)
            /\ ret' = [op |-> "get_message", by |-> s, path |-> t.path, uid |-> t.uid,
                       content |-> content, solo |-> FALSE]
            /\ wire' = Wire(s,
                 CASE t.item = "BODY[]" ->
                        << IMAPResponseSerializer_untagged_ok(
                               <<"FETCH", ToString(t.uid),
                                 "(BODY[]", "{" \o ToString(Len(content)) \o "})">>),
                           content \o <<"\r\n">>,
                           IMAPResponseSerializer_ok(t.tag, <<"FETCH", "completed">>) >>
                   [] t.item = "UID" ->
                        << IMAPResponseSerializer_untagged_ok(
                               <<"FETCH", ToString(t.uid), "(UID", ToString(t.uid) \o ")">>),
                           IMAPResponseSerializer_ok(t.tag, <<"FETCH", "completed">>) >>
                   [] OTHER ->
                        << IMAPResponseSerializer_bad(t.tag,
                               <<"FETCH", "failed:", "Unsupported", "fetch", "item", t.item>>) >>)
    /\ UNCHANGED sess
    /\ UNCHANGED_store /\ UNCHANGED_ghost

SearchKeys == {NoArg, "ALL", "UNSEEN"}

SearchLines(tag, uids) ==
    << IMAPResponseSerializer_untagged_ok(
           <<"SEARCH">> \o [i \in 1..Len(uids) |-> ToString(uids[i])]),
       IMAPResponseSerializer_ok(tag, <<"SEARCH", "completed">>) >>

handle_search(s, tag, key) ==
    /\ Idle(s)
    /\ IF ~sess[s].authenticated \/ sess[s].selected_mailbox = None
       THEN Finish(s, <<IMAPResponseSerializer_bad(tag,
                <<"SEARCH", "failed:", "Not", "authenticated", "or", "no", "mailbox",
                  "selected">>)>>)
       ELSE LET p == PathOf(s, sess[s].selected_mailbox) IN
            \* search_messages up to its first await
            IF p \notin dirs
            THEN Finish(s, SearchLines(tag, <<>>))
            ELSE Yield(s, [IdleTask EXCEPT !.cmd = "SEARCH", !.tag = tag, !.path = p,
                                           !.item = key, !.pc = "sm_listdir"], <<>>)
    /\ UNCHANGED sess
    /\ UNCHANGED_store /\ UNCHANGED_ghost

\* search_messages: os.listdir runs in its thread; every <uid>.eml is a match
\* whatever the criteria
sm_listdir(s) ==
    /\ At(s, "sm_listdir")
    /\ LET t == task[s] IN
       IF t.path \notin dirs
       THEN Crash(s)
       ELSE Finish(s, SearchLines(t.tag, sorted(DOMAIN files[t.path])))
    /\ UNCHANGED sess
    /\ UNCHANGED_store /\ UNCHANGED_ghost

\* -------------------------------------------------------------------- LIST
Patterns == {"*", "IN*"}
\* entry.startswith(pattern.replace('%', '').replace('*', ''))
MatchesPattern(entry, pattern) ==
    \/ pattern = "*"
    \/ pattern = "IN*" /\ entry = "INBOX"

ListLines(tag, mailboxes) ==
    [i \in 1..Len(mailboxes) |->
        IMAPResponseSerializer_untagged_ok(
            <<"LIST", "(\\Noinferiors)", "\"/\"", "\"" \o mailboxes[i] \o "\"">>)]
    \o <<IMAPResponseSerializer_ok(tag, <<"LIST", "completed">>)>>

handle_list(s, tag, pattern) ==
    /\ Idle(s)
    /\ IF ~sess[s].authenticated
       THEN Finish(s, <<IMAPResponseSerializer_bad(tag,
                <<"LIST", "failed:", "Not", "authenticated">>)>>)
       ELSE IF pattern = NoArg
       THEN Finish(s, <<IMAPResponseSerializer_bad(tag,
                <<"LIST", "requires", "a", "reference", "and", "a", "mailbox",
                  "pattern">>)>>)
       ELSE \* list_mailboxes up to its first await
            IF sess[s].current_user \notin userdirs
            THEN Finish(s, ListLines(tag, <<>>))
            ELSE Yield(s, [IdleTask EXCEPT !.cmd = "LIST", !.tag = tag,
                                           !.path = PathOf(s, "-"), !.item = pattern,
                                           !.pc = "lm_listdir"], <<>>)
    /\ UNCHANGED sess
    /\ UNCHANGED_store /\ UNCHANGED_ghost

\* the orders in which os.listdir may return a set of entries
Orders(entries) ==
    {o \in [1..Cardinality(entries) -> entries] :
        \A i, j \in DOMAIN o : i # j => o[i] # o[j]}

\* list_mailboxes: os.listdir runs in its thread, in the order of the file system
lm_listdir(s) ==
    /\ At(s, "lm_listdir")
    /\ LET t == task[s]
           entries == {m \in Mailboxes :
                          <<t.path[1], m>> \in dirs /\ MatchesPattern(m, t.item)}
       IN \E o \in Orders(entries) : Finish(s, ListLines(t.tag, o))
    /\ UNCHANGED sess
    /\ UNCHANGED_store /\ UNCHANGED_ghost

\* ------------------------------------------------- run: parse and dispatch
\* a line is the words data.strip() splits into at its single spaces: an
\* empty word stands for two spaces in a row, <<"">> for the empty line
Unquote(word) == IF word = "\"\"" THEN "" ELSE word

\* IMAPCommandParser.parse: fewer than two parts raise ValueError
IMAPCommandParser_parse(line) ==
    IF Len(line) < 2
    THEN [error |-> TRUE, tag |-> "", command |-> "", args |-> <<>>]
    ELSE LET rest == SelectSeq(SubSeq(line, 3, Len(line)), LAMBDA w : w # "")
         IN [error |-> FALSE, tag |-> line[1], command |-> line[2],
             args |-> [i \in 1..Len(rest) |-> Unquote(rest[i])]]

IMAPResponseSerializer_capability(capabilities) == <<"*", "CAPABILITY">> \o capabilities
IMAPResponseSerializer_bye == <<"*", "BYE", "IMAP4rev1", "Server", "shutting", "down">>

handle_capability(s, tag) ==
    /\ Idle(s)
    /\ Finish(s, << IMAPResponseSerializer_capability(
                        <<"IMAP4rev1", "AUTH=PLAIN", "IDLE", "LITERAL+", "UIDPLUS">>),
                    IMAPResponseSerializer_ok(tag, <<"CAPABILITY", "completed">>) >>)
    /\ UNCHANGED sess
    /\ UNCHANGED_store /\ UNCHANGED_ghost

\* handle_logout with the completion sent before the BYE notice
handle_logout_okFirst(s, tag) ==
    /\ Idle(s)
    /\ Yield(s, ClosedTask, << IMAPResponseSerializer_ok(tag, <<"LOGOUT", "completed">>),
                               IMAPResponseSerializer_bye >>)
    /\ UNCHANGED sess
    /\ UNCHANGED_store /\ UNCHANGED_ghost

\* the two lines are sent and the raise statement ends the handler with an
\* exception (IncompleteReadError, or the TypeError of building it from
\* None): either one makes run() leave its loop and close the connection
handle_logout(s, tag) ==
    /\ Idle(s)
    /\ Yield(s, ClosedTask, << IMAPResponseSerializer_bye,
                               IMAPResponseSerializer_ok(tag, <<"LOGOUT", "completed">>) >>)
    /\ UNCHANGED sess
    /\ UNCHANGED_store /\ UNCHANGED_ghost

handle_unknown_command(s, tag) ==
    /\ Idle(s)
    /\ Finish(s, <<IMAPResponseSerializer_bad(tag,
                     <<"Command", "not", "recognized", "or", "supported">>)>>)
    /\ UNCHANGED sess
    /\ UNCHANGED_store /\ UNCHANGED_ghost

handle_lsub(s, tag, args) ==
    handle_list(s, tag, IF Len(args) = 2 THEN args[2] ELSE NoArg)

\* the command words whose handler the model has as an action of its own
OwnCommands == {"LOGIN", "SELECT", "EXAMINE", "CREATE", "DELETE", "LIST", "STATUS",
                "APPEND", "FETCH", "SEARCH"}

\* getattr(self, "handle_" + command.lower(), self.handle_unknown_command),
\* called with (tag, args). The word COMMAND names handle_command itself,
\* which takes three arguments: the call raises TypeError and run() breaks
handle_command(s, tag, command, args) ==
    CASE command = "CAPABILITY" -> handle_capability(s, tag)
      [] command = "LOGOUT" -> handle_logout(s, tag)
      [] command = "LSUB" -> handle_lsub(s, tag, args)
      [] command = "COMMAND" ->
            /\ Idle(s)
            /\ Crash(s)
            /\ UNCHANGED sess
            /\ UNCHANGED_store /\ UNCHANGED_ghost
      [] OTHER -> handle_unknown_command(s, tag)

\* run: one line is read, parsed and dispatched. A ValueError of the parser
\* is answered on the first word if the line holds a space; otherwise the
\* loop is left and the connection closed
run(s, line) ==
    /\ Idle(s)
    /\ LET parsed == IMAPCommandParser_parse(line) IN
       IF parsed.error
       THEN /\ IF Len(line) >= 2
               THEN Finish(s, <<IMAPResponseSerializer_bad(line[1],
                                  <<"Invalid", "IMAP", "command", "format">>)>>)
               ELSE Crash(s)
            /\ UNCHANGED sess
            /\ UNCHANGED_store /\ UNCHANGED_ghost
       ELSE /\ parsed.command \notin OwnCommands
            /\ handle_command(s, parsed.tag, parsed.command, parsed.args)

\* ------------------------------------------------------------ specification
MailboxArgs == Mailboxes \cup {NoArg}
StatusRequests == {<<"MESSAGES">>, <<"UIDNEXT", "UIDVALIDITY">>}

\* the steps of create_mailbox and append_message that follow an await
ResumeAppend(s) ==
    \/ \E body \in Bodies : ap_literal(s, body)
    \/ cm_open(s) \/ cm_write(s) \/ rm_open(s) \/ wm_open(s) \/ wm_write(s)
    \/ mf_open(s) \/ mf_write(s)

\* the steps of the reading store calls that follow an await
ResumeRead(s) ==
    \/ gs_listdir(s) \/ gm_open(s) \/ sm_listdir(s) \/ lm_listdir(s)

\* an APPEND that reaches append_message is sent only while fewer than
\* `most` calls were made
MayAppend(s, most) == sess[s].authenticated => nAppends < most

\* Clients that work on one mailbox: they log in, create and delete INBOX and
\* append literals to it, in any interleaving.
NextStore ==
    \E s \in Sessions :
       \/ Greet(s)
       \/ ResumeAppend(s)
       \/ \E tag \in Tags :
            \/ handle_login(s, tag, "test", "test")
            \/ handle_create(s, tag, "INBOX")
            \/ handle_delete(s, tag, "INBOX")
            \/ MayAppend(s, MaxAppends) /\ handle_append(s, tag, "INBOX", TRUE, <<>>)

SpecStore == Init /\ [][NextStore]_vars

\* The same clients, any of which may drop its connection after the
\* continuation prompt of an APPEND.
NextEof ==
    \/ NextStore
    \/ \E s \in Sessions : ap_eof(s)

SpecEof == Init /\ [][NextEof]_vars

\* Clients that append to a mailbox that exists: INBOX is created once, and
\* the appends start when it is there; nothing is deleted.
Created(p) ==
    /\ p \in dirs /\ meta[p].st = "json"
    /\ \A x \in Sessions : task[x].cmd # "CREATE"

NextAppend ==
    \E s \in Sessions :
       \/ Greet(s)
       \/ ResumeAppend(s)
       \/ \E tag \in Tags :
            \/ handle_login(s, tag, "test", "test")
            \/ dirs = {} /\ handle_create(s, tag, "INBOX")
            \/ /\ sess[s].authenticated => Created(PathOf(s, "INBOX"))
               /\ MayAppend(s, MaxAppends)
               /\ handle_append(s, tag, "INBOX", TRUE, <<>>)

SpecAppend == Init /\ [][NextAppend]_vars

\* One client, s1, sends every command; the other clients log in and create
\* and delete the mailboxes under it.
SessionAppends == 1

\* the lines that reach run() without being one of the commands above
OtherLines ==
    { <<"">>, <<"onlyonetoken">>,
      <<"A1", "NOSUCHCMD">>, <<"A1", "", "LOGIN">>, <<"A1", "COMMAND">>,
      <<"A1", "LSUB", "\"\"", "*">>, <<"A1", "LOGOUT">>, <<"A1", "CAPABILITY">> }

FullClient(s) == s = "s1"

NextSession ==
    \E s \in Sessions :
       \/ Greet(s)
       \/ ResumeAppend(s)
       \/ ResumeRead(s)
       \/ \E tag \in Tags :
            \/ handle_login(s, tag, "test", "test")
            \/ \E m \in Mailboxes : handle_create(s, tag, m)
            \/ \E m \in Mailboxes : handle_delete(s, tag, m)
            \/ FullClient(s) /\ handle_login(s, tag, "eve", "test")
            \/ FullClient(s) /\ \E m \in Mailboxes : handle_select(s, tag, m)
            \/ FullClient(s) /\ \E m \in Mailboxes : handle_examine(s, tag, m)
            \/ FullClient(s) /\ \E m \in Mailboxes :
                  handle_status(s, tag, m, <<"MESSAGES">>, FALSE)
            \/ /\ FullClient(s) /\ MayAppend(s, SessionAppends)
               /\ handle_append(s, tag, "INBOX", TRUE, <<>>)
            \/ FullClient(s) /\ \E item \in FetchItems : handle_fetch(s, tag, "1", item)
            \/ FullClient(s) /\ handle_search(s, tag, "ALL")
            \/ FullClient(s) /\ handle_list(s, tag, "*")
       \/ FullClient(s) /\ \E line \in OtherLines : run(s, line)

SpecSession == Init /\ [][NextSession]_vars

\* A first client that creates INBOX when no mailbox exists and appends to
\* it once it exists, and second clients that send CREATE INBOX only when
\* INBOX exists; nothing is deleted.
NextCreate ==
    \E s \in Sessions :
       \/ Greet(s)
       \/ ResumeAppend(s)
       \/ \E tag \in Tags :
            \/ handle_login(s, tag, "test", "test")
            \/ FullClient(s) /\ dirs = {} /\ handle_create(s, tag, "INBOX")
            \/ /\ ~FullClient(s) /\ <<"test", "INBOX">> \in dirs
               /\ handle_create(s, tag, "INBOX")
            \/ /\ FullClient(s) /\ <<"test", "INBOX">> \in dirs
               /\ MayAppend(s, MaxAppends)
               /\ handle_append(s, tag, "INBOX", TRUE, <<>>)

SpecCreate == Init /\ [][NextCreate]_vars

\* A reader and a writer: s1 selects INBOX and fetches from it while the
\* other clients append to it; INBOX is created once and never deleted.
NextRead ==
    \E s \in Sessions :
       \/ Greet(s)
       \/ ResumeAppend(s)
       \/ gs_listdir(s)
       \/ gm_open(s)
       \/ \E tag \in Tags :
            \/ handle_login(s, tag, "test", "test")
            \/ dirs = {} /\ handle_create(s, tag, "INBOX")
            \/ FullClient(s) /\ handle_select(s, tag, "INBOX")
            \/ FullClient(s) /\ \E u \in {"1", "2"}, item \in FetchItems :
                  handle_fetch(s, tag, u, item)
            \/ /\ ~FullClient(s)
               /\ sess[s].authenticated => Created(PathOf(s, "INBOX"))
               /\ MayAppend(s, MaxAppends)
               /\ handle_append(s, tag, "INBOX", TRUE, <<>>)

SpecRead == Init /\ [][NextRead]_vars

\* A client that sends its commands under two tags, in any order, while the
\* other clients log in and append to INBOX under the same tags.
OrderTags == {"A1", "A2"}
OrderLines ==
    UNION {{<<tag, "LOGOUT">>, <<tag, "CAPABILITY">>, <<tag, "NOSUCHCMD">>} :
              tag \in OrderTags}

NextOrder ==
    \E s \in Sessions :
       \/ Greet(s)
       \/ ResumeAppend(s)
       \/ ResumeRead(s)
       \/ \E tag \in OrderTags :
            \/ handle_login(s, tag, "test", "test")
            \/ FullClient(s) /\ handle_create(s, tag, "INBOX")
            \/ FullClient(s) /\ handle_select(s, tag, "INBOX")
            \/ FullClient(s) /\ handle_status(s, tag, "INBOX", <<"MESSAGES">>, FALSE)
            \/ FullClient(s) /\ \E item \in FetchItems : handle_fetch(s, tag, "1", item)
            \/ FullClient(s) /\ handle_search(s, tag, "ALL")
            \/ FullClient(s) /\ handle_list(s, tag, "*")
            \/ /\ ~FullClient(s) /\ MayAppend(s, SessionAppends)
               /\ handle_append(s, tag, "INBOX", TRUE, <<>>)
       \/ FullClient(s) /\ \E line \in OrderLines : run(s, line)

SpecOrder == Init /\ [][NextOrder]_vars

\* A client that selects INBOX and searches it, with each criterion, while
\* the other clients append to it; INBOX is created once and never deleted.
NextSearch ==
    \E s \in Sessions :
       \/ Greet(s)
       \/ ResumeAppend(s)
       \/ gs_listdir(s)
       \/ sm_listdir(s)
       \/ \E tag \in Tags :
            \/ handle_login(s, tag, "test", "test")
            \/ dirs = {} /\ handle_create(s, tag, "INBOX")
            \/ FullClient(s) /\ handle_select(s, tag, "INBOX")
            \/ FullClient(s) /\ \E key \in SearchKeys : handle_search(s, tag, key)
            \/ /\ ~FullClient(s)
               /\ sess[s].authenticated => Created(PathOf(s, "INBOX"))
               /\ MayAppend(s, MaxAppends)
               /\ handle_append(s, tag, "INBOX", TRUE, <<>>)

SpecSearch == Init /\ [][NextSearch]_vars

\* A client that asks for the status of INBOX, with the item list written
\* bare or quoted, while the other clients append to it; INBOX is created
\* once and never deleted.
NextStatus ==
    \E s \in Sessions :
       \/ Greet(s)
       \/ ResumeAppend(s)
       \/ gs_listdir(s)
       \/ \E tag \in Tags :
            \/ handle_login(s, tag, "test", "test")
            \/ dirs = {} /\ handle_create(s, tag, "INBOX")
            \/ FullClient(s) /\ \E m \in Mailboxes, items \in StatusRequests,
                                    quoted \in BOOLEAN :
                  handle_status(s, tag, m, items, quoted)
            \/ /\ ~FullClient(s)
               /\ sess[s].authenticated => Created(PathOf(s, "INBOX"))
               /\ MayAppend(s, MaxAppends)
               /\ handle_append(s, tag, "INBOX", TRUE, <<>>)

SpecStatus == Init /\ [][NextStatus]_vars

\* Servers whose pipeline is built with any list of up to MaxProcessors
\* processors; the clients create INBOX once and append to it.
ProcessorLists == UNION {[1..n -> ProcessorKinds] : n \in 0..MaxProcessors}

InitPipeline == InitState /\ processors \in ProcessorLists /\ auth = NoAuth

NextPipeline ==
    \E s \in Sessions :
       \/ Greet(s)
       \/ ResumeAppend(s)
       \/ \E tag \in Tags :
            \/ handle_login(s, tag, "test", "test")
            \/ dirs = {} /\ handle_create(s, tag, "INBOX")
            \/ /\ sess[s].authenticated => Created(PathOf(s, "INBOX"))
               /\ MayAppend(s, SessionAppends)
               /\ handle_append(s, tag, "INBOX", TRUE, <<>>)

SpecPipeline == InitPipeline /\ [][NextPipeline]_vars

\* Calls of AuthManager.authenticate with every spelling of PLAIN in upper
\* and lower case, other mechanism names, and user names and passwords that
\* are or are not those of the one account.
PlainSpellings ==
    {[i \in 1..Len(PLAIN) |-> IF b[i] THEN PLAIN[i] ELSE lower_char(PLAIN[i])] :
        b \in [1..Len(PLAIN) -> BOOLEAN]}
Mechanisms ==
    PlainSpellings \cup
    { <<>>, <<"L", "O", "G", "I", "N">>, <<"l", "o", "g", "i", "n">>,
      <<"P", "L", "A", "I">>, <<"P", "L", "A", "I", "N", "X">>,
      <<"x", "p", "l", "a", "i", "n">> }
AuthNames == {"test", "Test", "eve", ""}
AuthPasswords == {"test", "TEST", "bad", ""}

InitAuth ==
    /\ InitState
    /\ processors = <<"DummyProcessor">>
    /\ \E mechanism \in Mechanisms, username \in AuthNames, password \in AuthPasswords :
          auth = [NoAuth EXCEPT !.mechanism = mechanism, !.username = username,
                                !.password = password]

\* the call returns
authenticate ==
    /\ ~auth.called
    /\ auth' = [auth EXCEPT !.called = TRUE,
                            !.result = AuthManager_authenticate(
                                           auth.mechanism, auth.username, auth.password)]
    /\ UNCHANGED <<dirs, userdirs, meta, files, sess, task, wire, ret, returned, epochs,
                   lastSelect, nAppends, processors>>

NextAuth == authenticate

SpecAuth == InitAuth /\ [][NextAuth]_vars

\* ================================================================== claims
\* an append_message call on mailbox p has started and not yet returned
AppendInFlight(p) ==
    \E s \in Sessions :
       /\ task[s].cmd = "APPEND" /\ task[s].path = p
       /\ task[s].pc \notin {"idle", "closed", "ap_literal"}

ReturnedUids(p) == {r[1] : r \in returned[p].msgs}
MaxUid(uids) == CHOOSE k \in uids : \A j \in uids : j <= k
MinUid(uids) == CHOOSE k \in uids : \A j \in uids : k <= j

\* C1: the uids that the append_message calls on one mailbox have returned
\* are pairwise distinct and consecutive, and once no call is running the
\* stored uidnext is the largest returned uid plus 1.
C1_UidsDistinctConsecutive ==
    \A p \in Paths :
       LET uids == ReturnedUids(p) IN
       /\ Cardinality(uids) = returned[p].calls
       /\ uids # {} => \A k \in MinUid(uids)..MaxUid(uids) : k \in uids
       /\ (uids # {} /\ ~AppendInFlight(p) /\ meta[p].st = "json")
             => meta[p].uidnext = MaxUid(uids) + 1

\* C2: the uidnext stored for an existing mailbox is at least 1 + the highest
\* uid append_message has returned for it since it was created.
C2_UidnextAboveReturned ==
    \A p \in dirs :
       meta[p].st = "json" =>
          \A uid \in ReturnedUids(p) : meta[p].uidnext >= uid + 1

\* C3: the uidvalidity reported for a mailbox differs from the uidvalidity of
\* every deleted mailbox of the same user and name.
C3_FreshUidvalidity ==
    \A p \in dirs :
       meta[p].st # "empty" => ReportedUidvalidity(p) \notin epochs[p]

\* C4: get_message for a uid that append_message has returned gives the
\* content of that call, in every state until the mailbox is deleted.
C4_StoredMessageKept ==
    \A p \in Paths : \A r \in returned[p].msgs :
       LET message == FilesystemMailboxStore_get_message(p, r[1]) IN
       message.found /\ message.content = r[2]

\* C5: when append_message(u, m, B) has run with no step of another task in
\* between and returned uid k, get_message(u, m, k) is a record with content B.
C5_RoundTrip ==
    (ret.op = "append_message" /\ ret.solo) =>
       LET message == FilesystemMailboxStore_get_message(ret.path, ret.uid) IN
       message.found /\ message.uid = ret.uid /\ message.content = ret.content

\* a second message of another length was appended alone, after a first one
C5_Witness ==
    /\ ret.op = "append_message" /\ ret.solo
    /\ ret.uid = 2
    /\ ret.content = <<ProcessedBy, "b", "c">>

\* the one line written to session s by the step is a tagged BAD for tag
TaggedBad(w, s, tag) ==
    /\ w.to = s
    /\ Len(w.lines) = 1
    /\ Len(w.lines[1]) >= 2
    /\ w.lines[1][1] = tag
    /\ w.lines[1][2] = "BAD"

\* session s handles one of SELECT, EXAMINE, CREATE, DELETE, LIST, STATUS,
\* APPEND, FETCH, SEARCH in this step
StateCommand(s, tag) ==
    \/ \E m \in MailboxArgs :
          \/ handle_select(s, tag, m) \/ handle_examine(s, tag, m)
          \/ handle_create(s, tag, m) \/ handle_delete(s, tag, m)
          \/ \E items \in StatusRequests, quoted \in BOOLEAN :
                handle_status(s, tag, m, items, quoted)
          \/ \E literal \in BOOLEAN, text \in Bodies :
                handle_append(s, tag, m, literal, text)
    \/ \E pattern \in Patterns \cup {NoArg} : handle_list(s, tag, pattern)
    \/ \E u \in UidWords \cup {NoArg}, item \in FetchItems : handle_fetch(s, tag, u, item)
    \/ \E key \in SearchKeys : handle_search(s, tag, key)

\* C6: in the Unauthenticated state each of the nine commands is answered
\* with a tagged BAD and changes neither the session nor the store.
C6_UnauthenticatedRejected ==
    [][\A s \in Sessions, tag \in Tags :
          (~sess[s].authenticated /\ StateCommand(s, tag)) =>
             /\ TaggedBad(wire', s, tag)
             /\ sess'[s] = sess[s]
             /\ UNCHANGED <<dirs, userdirs, meta, files>>]_vars

\* session s handles FETCH or SEARCH in this step
FetchOrSearch(s, tag) ==
    \/ \E u \in UidWords \cup {NoArg}, item \in FetchItems : handle_fetch(s, tag, u, item)
    \/ \E key \in SearchKeys : handle_search(s, tag, key)

\* a get_message or search_messages call of session s is reading the store
ReadsStore(t) == t.pc \in {"gm_open", "sm_listdir"}

\* C7: FETCH and SEARCH read the store only for the mailbox of the session's
\* latest successful SELECT or EXAMINE; with no mailbox selected they are
\* answered with a tagged BAD and read nothing.
C7_FetchSearchSelectedOnly ==
    /\ [](\A s \in Sessions :
            ReadsStore(task[s]) =>
               /\ lastSelect[s] # None
               /\ task[s].path = <<sess[s].current_user, lastSelect[s]>>)
    /\ [][\A s \in Sessions, tag \in Tags :
            (FetchOrSearch(s, tag) /\ sess[s].selected_mailbox = None) =>
               /\ TaggedBad(wire', s, tag)
               /\ ~ReadsStore(task'[s])]_vars

\* the step ends a SELECT or EXAMINE of session s with its tagged completion
SelectCompleted(s) ==
    /\ task[s].cmd \in {"SELECT", "EXAMINE"}
    /\ wire'.to = s
    /\ Len(wire'.lines) > 0
    /\ wire'.lines[Len(wire'.lines)] = <<task[s].tag, task[s].cmd, "completed">>

\* C8: a mailbox is selected only in an authenticated session; the selection
\* changes only when a SELECT or EXAMINE completes, and then it becomes the
\* mailbox named, read-write for SELECT and read-only for EXAMINE, whether or
\* not a mailbox was selected before.
C8_SelectionBySelectOnly ==
    /\ [](\A s \in Sessions :
            sess[s].selected_mailbox # None => sess[s].authenticated)
    /\ [][\A s \in Sessions :
            /\ (\/ sess'[s].selected_mailbox # sess[s].selected_mailbox
                \/ sess'[s].read_only # sess[s].read_only) => SelectCompleted(s)
            /\ SelectCompleted(s) =>
                  /\ sess'[s].selected_mailbox = task[s].path[2]
                  /\ sess'[s].read_only = (task[s].cmd = "EXAMINE")]_vars

\* an EXAMINE of Work has just completed in an authenticated session, which
\* has Work selected read-only
C8_Witness ==
    \E s \in Sessions :
       /\ sess[s].authenticated
       /\ sess[s].selected_mailbox = "Work" /\ sess[s].read_only
       /\ wire.to = s /\ Len(wire.lines) = 6
       /\ wire.lines[6] = <<"A1", "EXAMINE", "completed">>

\* C9: SELECT or EXAMINE of a mailbox that does not exist is answered with a
\* tagged BAD and leaves the selected mailbox and the read-only flag as they
\* were.
C9_SelectMissingRejected ==
    [][\A s \in Sessions, tag \in Tags, m \in Mailboxes :
          (/\ handle_select(s, tag, m) \/ handle_examine(s, tag, m)
           /\ sess[s].authenticated
           /\ PathOf(s, m) \notin dirs) =>
             /\ TaggedBad(wire', s, tag)
             /\ sess'[s].selected_mailbox = sess[s].selected_mailbox
             /\ sess'[s].read_only = sess[s].read_only]_vars

\* C10: a DELETE that removes the mailbox the session has selected clears
\* the session's selection.
C10_DeleteClearsSelection ==
    [][\A s \in Sessions, tag \in Tags, m \in Mailboxes :
          (/\ handle_delete(s, tag, m)
           /\ sess[s].selected_mailbox = m
           /\ PathOf(s, m) \in dirs /\ PathOf(s, m) \notin dirs') =>
             sess'[s].selected_mailbox = None]_vars

\* C11: a LOGIN issued while a mailbox is selected is answered with a tagged
\* BAD and leaves the current user and the selection unchanged.
C11_LoginRejectedWhenSelected ==
    [][\A s \in Sessions, tag \in Tags :
          \A username \in LoginNames, password \in Passwords :
             (/\ handle_login(s, tag, username, password)
              /\ sess[s].selected_mailbox # None) =>
                /\ TaggedBad(wire', s, tag)
                /\ sess'[s].current_user = sess[s].current_user
                /\ sess'[s].selected_mailbox = sess[s].selected_mailbox
                /\ sess'[s].read_only = sess[s].read_only]_vars

\* the line is a tagged OK for tag
TaggedOk(line, tag) == Len(line) >= 2 /\ line[1] = tag /\ line[2] = "OK"

\* C12: LOGOUT, in any session state, makes the session send the BYE notice
\* and then the tagged success for its tag and close the connection; a closed
\* session handles no further line.
C12_LogoutOrderAndClose ==
    /\ [][\A s \in Sessions, tag \in Tags :
            handle_logout(s, tag) =>
               /\ wire'.to = s
               /\ Len(wire'.lines) = 2
               /\ SubSeq(wire'.lines[1], 1, 2) = <<"*", "BYE">>
               /\ TaggedOk(wire'.lines[2], tag)
               /\ task'[s].pc = "closed"]_vars
    /\ [][\A s \in Sessions :
            task[s].pc = "closed" =>
               /\ task'[s] = task[s] /\ sess'[s] = sess[s]
               /\ wire'.to # s]_vars

\* the command names the claims call recognised
RecognisedCommands ==
    {"CAPABILITY", "LOGIN", "LOGOUT", "SELECT", "EXAMINE", "CREATE", "DELETE",
     "LIST", "STATUS", "APPEND", "FETCH", "SEARCH"}

\* the lines that carry a tag and a command name that is not recognised
UnrecognisedLines ==
    {line \in OtherLines :
        Len(line) >= 2 /\ line[2] # "" /\ line[2] \notin RecognisedCommands}

\* C13: a command name that is not recognised is answered, in every session
\* state, with a tagged BAD; session state and store are unchanged and the
\* connection stays open for the next command.
C13_UnrecognisedRejected ==
    [][\A s \in Sessions, line \in UnrecognisedLines :
          run(s, line) =>
             /\ TaggedBad(wire', s, line[1])
             /\ sess'[s] = sess[s]
             /\ UNCHANGED <<dirs, userdirs, meta, files>>
             /\ task'[s].pc = "idle"]_vars

\* C14: a line with no command field (one token, or the empty line) closes
\* the connection with no response; a malformed line that carries a tag (its
\* command field is empty) is answered with a tagged BAD on that tag and the
\* session goes on.
C14_ParseFault ==
    [][\A s \in Sessions, line \in OtherLines :
          run(s, line) =>
             /\ Len(line) < 2 =>
                   /\ task'[s].pc = "closed"
                   /\ wire'.to # s
             /\ (Len(line) >= 2 /\ line[2] = "") =>
                   /\ TaggedBad(wire', s, line[1])
                   /\ task'[s].pc = "idle"]_vars

\* the tagged completions of the model that report a success
SuccessTexts ==
    { <<"LOGIN", "completed">>, <<"LOGOUT", "completed">>, <<"CAPABILITY", "completed">>,
      <<"CREATE", "completed">>, <<"DELETE", "completed">>, <<"SELECT", "completed">>,
      <<"EXAMINE", "completed">>, <<"STATUS", "completed">>, <<"LIST", "completed">>,
      <<"FETCH", "completed">>, <<"SEARCH", "completed">> }

\* the text of a tagged line after its tag and its status word
TextOf(line) == SubSeq(line, 3, Len(line))

\* C15: every tagged completion the session sends is TAG OK <msg> on success
\* and TAG BAD <msg> on failure, TAG being the tag of the command.
C15_TaggedForm ==
    \A i \in 1..Len(wire.lines) :
       LET line == wire.lines[i] IN
       (Len(line) >= 1 /\ line[1] \in Tags) =>
          /\ Len(line) >= 2
          /\ line[2] \in {"OK", "BAD"}
          /\ line[2] = "OK" <=>
                (\/ TextOf(line) \in SuccessTexts
                 \/ SubSeq(TextOf(line), 1, 2) = <<"APPEND", "completed">>)

\* the step is the one in which a SELECT or EXAMINE of session s succeeds
SelectSucceeds(s) ==
    /\ gs_listdir(s)
    /\ task[s].cmd \in {"SELECT", "EXAMINE"}
    /\ task'[s].pc = "idle"

\* C16: a successful SELECT or EXAMINE sends exactly the selection-mode
\* notice, EXISTS, RECENT, UIDVALIDITY, UIDNEXT and the tagged OK, in this
\* order; when no other session has taken a step since the command was
\* received, the message count, uidvalidity and uidnext are the store's.
C16_SelectResponse ==
    [][\A s \in Sessions :
          SelectSucceeds(s) =>
             LET t == task[s]
                 lines == wire'.lines
             IN /\ wire'.to = s
                /\ Len(lines) = 6
                /\ lines[1] = <<"*", IF t.cmd = "SELECT" THEN "[READ-WRITE]" ELSE "[READ-ONLY]",
                                t.path[2], "selected">>
                /\ Len(lines[2]) = 3 /\ lines[2][1] = "*" /\ lines[2][3] = "EXISTS"
                /\ t.solo => lines[2][2] = ToString(Cardinality(DOMAIN files[t.path]))
                /\ Len(lines[3]) = 3 /\ lines[3][1] = "*" /\ lines[3][3] = "RECENT"
                /\ (t.solo /\ meta[t.path].st = "json") =>
                      /\ lines[4] = <<"*", "OK", "[UIDVALIDITY",
                                      ToString(meta[t.path].uidvalidity) \o "]", "UIDVALIDITY">>
                      /\ lines[5] = <<"*", "OK", "[UIDNEXT",
                                      ToString(meta[t.path].uidnext) \o "]", "UIDNEXT">>
                /\ lines[6] = <<t.tag, "OK", t.cmd, "completed">>]_vars

\* C17: an APPEND with a literal sends the continuation prompt before
\* anything else; the literal without its CRLF goes through the pipeline; the
\* pipeline's output is what append_message stores; and the answer is a
\* tagged OK carrying the uid append_message returned.
C17_AppendLiteralSteps ==
    [][\A s \in Sessions :
          /\ \A tag \in Tags, m \in Mailboxes :
                (handle_append(s, tag, m, TRUE, <<>>) /\ sess[s].authenticated) =>
                   /\ wire' = [to |-> s, lines |-> <<<<"+">>>>]
                   /\ task'[s].pc = "ap_literal"
                   /\ UNCHANGED <<dirs, userdirs, meta, files>>
          /\ \A body \in Bodies :
                ap_literal(s, body) =>
                   /\ task'[s].content = <<ProcessedBy>> \o body
                   /\ UNCHANGED <<meta, files>>
          /\ mf_write(s) =>
                /\ ret'.op = "append_message" /\ ret'.uid = task[s].uid
                /\ (task[s].live /\ task[s].solo) =>
                      files'[task[s].path][ret'.uid] = task[s].content
                /\ wire' = [to |-> s,
                            lines |-> << <<task[s].tag, "OK", "APPEND", "completed",
                                           "[UID", ToString(ret'.uid) \o "]">> >>]]_vars

\* the contents passed to the append_message calls on p that were assigned uid
AssignedContents(p, uid) ==
    {r[2] : r \in {m \in returned[p].msgs : m[1] = uid}}
    \cup {task[x].content : x \in {y \in Sessions :
                                      /\ task[y].cmd = "APPEND" /\ task[y].path = p
                                      /\ task[y].uid = uid
                                      /\ task[y].pc \in {"wm_open", "wm_write",
                                                         "mf_open", "mf_write"}}}

\* C18: what get_message returns for a uid is the complete content passed to
\* an append that was assigned that uid, never an empty or truncated content.
C18_NoPartialMessage ==
    ret.op = "get_message" => ret.content \in AssignedContents(ret.path, ret.uid)

\* the file operation that the next step of session s runs fails: the
\* directory, the metadata file or the message file it needs is gone
StoreFault(s) ==
    LET t == task[s] IN
    \/ t.pc = "cm_open" /\ t.cmd = "CREATE" /\ t.path \notin dirs
    \/ t.pc \in {"wm_open", "mf_open", "gs_listdir", "sm_listdir"} /\ t.path \notin dirs
    \/ t.pc = "rm_open" /\ meta[t.path].st = "absent"
    \/ t.pc = "gm_open" /\ t.uid \notin DOMAIN files[t.path]

\* C19: a store operation that fails with a persistence fault makes the
\* session answer the command with a tagged BAD and go on; the session is
\* not closed.
C19_FaultAnsweredBad ==
    [][\A s \in Sessions :
          (StoreFault(s) /\ (ResumeAppend(s) \/ ResumeRead(s))) =>
             /\ TaggedBad(wire', s, task[s].tag)
             /\ task'[s].pc = "idle"]_vars

\* the context the claim requires after the processors ps: a processor that
\* raises leaves the context as it stood before its call
RECURSIVE Contained(_, _)
Contained(ps, context) ==
    IF ps = <<>> THEN context
    ELSE LET call == BaseProcessor_process(Head(ps), context)
         IN Contained(Tail(ps), IF call.raised THEN context ELSE call.data)

Context(body) == [content |-> body, mailbox |-> "INBOX", user |-> "test"]

\* the content is what the claim requires the pipeline to make of a literal
ContainedContent(content) ==
    \E body \in Bodies : content = Contained(processors, Context(body)).content

\* C20: whichever processors raise, process_message invokes every processor
\* once in the configured order, and the context it returns, which APPEND
\* stores, holds no modification made by a processor that raised.
C20_FaultContained ==
    /\ \A body \in Bodies :
          RunProcessors(processors, Context(body), <<>>).invoked = processors
    /\ \A s \in Sessions :
          (task[s].cmd = "APPEND" /\ task[s].pc \notin {"idle", "closed", "ap_literal"}) =>
             ContainedContent(task[s].content)
    /\ ret.op = "append_message" => ContainedContent(ret.content)

\* C21: authenticate returns true for the mechanism PLAIN, in any letter
\* case, with username test and password test; false for every other
\* username and password under PLAIN; and false for every mechanism name
\* that is not registered.
C21_AuthenticateTable ==
    auth.called =>
       /\ (auth.mechanism \in PlainSpellings /\ auth.username = "test"
              /\ auth.password = "test") => auth.result = TRUE
       /\ (auth.mechanism \in PlainSpellings /\ ~(auth.username = "test"
              /\ auth.password = "test")) => auth.result = FALSE
       /\ auth.mechanism \notin PlainSpellings => auth.result = FALSE

\* a call with a mixed-case spelling of PLAIN and the account's credentials
\* has returned true
C21_Witness ==
    /\ auth.called /\ auth.result
    /\ auth.mechanism = <<"p", "L", "a", "i", "N">>
    /\ auth.username = "test" /\ auth.password = "test"

\* C22: a LOGIN that fails authentication is answered with a tagged BAD and
\* leaves the authenticated flag, the current user and the selection as they
\* were, whether the session was unauthenticated or authenticated before.
C22_FailedLoginKeepsState ==
    [][\A s \in Sessions, tag \in Tags :
          \A username \in LoginNames, password \in Passwords :
             (/\ handle_login(s, tag, username, password)
              /\ ~AuthManager_authenticate(PLAIN, username, password)) =>
                /\ TaggedBad(wire', s, tag)
                /\ sess'[s] = sess[s]]_vars

\* the counters a metadata file stores (those of a new mailbox when it
\* stores none)
Counters(f) ==
    IF f.st = "json" THEN [uidnext |-> f.uidnext, uidvalidity |-> f.uidvalidity]
    ELSE DefaultMetadata

\* the step is one of a create_mailbox call that a second client makes for a
\* CREATE of p: the second clients send CREATE only for a mailbox that
\* exists, so the call was made on an existing mailbox
CreateOnExisting(s, p) ==
    /\ ~FullClient(s)
    /\ \/ /\ \E tag \in Tags : handle_create(s, tag, p[2])
          /\ sess[s].authenticated /\ PathOf(s, p[2]) = p /\ p \in dirs
       \/ /\ cm_open(s) \/ cm_write(s)
          /\ task[s].cmd = "CREATE" /\ task[s].path = p

\* C23: create_mailbox called on a mailbox that exists leaves its uidnext, its
\* uidvalidity and its stored messages unchanged, whatever was appended
\* before, and returns true (CREATE is answered with its completion) while
\* the mailbox is there.
C23_CreateExistingKeeps ==
    [][\A s \in Sessions, p \in Paths :
          CreateOnExisting(s, p) =>
             /\ Counters(meta'[p]) = Counters(meta[p])
             /\ files'[p] = files[p]
             /\ (task'[s].pc = "idle" /\ p \in dirs') =>
                   wire' = [to |-> s,
                            lines |-> <<IMAPResponseSerializer_ok("A1",
                                           <<"CREATE", "completed">>)>>]]_vars

\* C24: delete_mailbox on an existing mailbox returns true (DELETE is
\* answered with its completion) and leaves no status, no message of any uid
\* and no list entry for the mailbox; on an absent mailbox it returns false
\* (DELETE is answered with its failure) and the store is unchanged.
C24_DeleteRemovesAll ==
    [][\A s \in Sessions, tag \in Tags, m \in Mailboxes :
          (handle_delete(s, tag, m) /\ sess[s].authenticated) =>
             LET p == PathOf(s, m) IN
             IF p \in dirs
             THEN /\ wire' = [to |-> s,
                              lines |-> <<IMAPResponseSerializer_ok(tag,
                                             <<"DELETE", "completed">>)>>]
                  /\ p \notin dirs'
                  /\ meta'[p] = AbsentMeta
                  /\ \A uid \in 1..MaxAppends : uid \notin DOMAIN files'[p]
             ELSE /\ wire' = [to |-> s,
                              lines |-> <<IMAPResponseSerializer_bad(tag,
                                 <<"DELETE", "failed:", "Could", "not", "delete",
                                   "mailbox", m>>)>>]
                  /\ UNCHANGED <<dirs, userdirs, meta, files>>]_vars

\* the words of an untagged STATUS line for mailbox m that reports exactly
\* the items, in their order, each with a value
ReportsItems(line, m, items) ==
    /\ Len(line) = 3 + 2 * Len(items)
    /\ SubSeq(line, 1, 3) = <<"*", "STATUS", m>>
    /\ \A i \in 1..Len(items) :
          line[2 + 2 * i] = (IF i = 1 THEN "(" ELSE "") \o items[i]

\* C25: in an authenticated session, STATUS of an existing mailbox with a
\* parenthesised list of one or more items is answered with one untagged
\* STATUS line that reports exactly the requested items in the order
\* requested, followed by the tagged OK.
C25_StatusReportsRequested ==
    [][\A s \in Sessions :
          /\ \A tag \in Tags, m \in Mailboxes, items \in StatusRequests :
                (/\ handle_status(s, tag, m, items, FALSE)
                 /\ sess[s].authenticated /\ PathOf(s, m) \in dirs) =>
                   /\ task'[s].cmd = "STATUS" /\ task'[s].items = items
                   /\ wire'.to # s
          /\ (gs_listdir(s) /\ task[s].cmd = "STATUS" /\ task'[s].pc = "idle") =>
                /\ wire'.to = s
                /\ Len(wire'.lines) = 2
                /\ ReportsItems(wire'.lines[1], task[s].path[2], task[s].items)
                /\ wire'.lines[2] = <<task[s].tag, "OK", "STATUS", "completed">>]_vars

\* C26: in the Selected state a FETCH of an item that is neither UID nor
\* BODY[] is answered with a tagged BAD, with no tagged OK and no untagged
\* FETCH line; a FETCH of a uid with no stored message is answered with a
\* tagged BAD; each time the one tagged line is all the command sends.
C26_FetchRejected ==
    [][\A s \in Sessions :
          /\ \A tag \in Tags, u \in UidWords, item \in FetchItems :
                (/\ handle_fetch(s, tag, u, item)
                 /\ sess[s].authenticated /\ sess[s].selected_mailbox # None
                 /\ IsInt(u)) =>
                   IF FilesystemMailboxStore_get_message(
                          PathOf(s, sess[s].selected_mailbox), IntOf(u)).found
                   THEN wire'.to # s
                   ELSE TaggedBad(wire', s, tag) /\ task'[s].pc = "idle"
          /\ (gm_open(s) /\ task[s].item \notin {"UID", "BODY[]"}) =>
                TaggedBad(wire', s, task[s].tag) /\ task'[s].pc = "idle"]_vars

\* the stored message has no \Seen flag
Unseen(p, uid) ==
    LET flags == FilesystemMailboxStore_get_message(p, uid).flags IN
    \A i \in DOMAIN flags : flags[i] # "\\Seen"

\* the uids of the messages stored in p that match the search key
Matching(p, key) ==
    {uid \in DOMAIN files[p] : key = "UNSEEN" => Unseen(p, uid)}

\* the lines are an untagged SEARCH line that lists exactly the uids, in
\* strictly ascending order, and one more line
SearchAnswer(lines, uids) ==
    /\ Len(lines) = 2
    /\ LET line == lines[1] IN
       /\ Len(line) = 2 + Cardinality(uids)
       /\ SubSeq(line, 1, 2) = <<"*", "SEARCH">>
       /\ \A i \in 3..Len(line) : IsInt(line[i]) /\ IntOf(line[i]) \in uids
       /\ \A i, j \in 3..Len(line) : i < j => IntOf(line[i]) < IntOf(line[j])

Receives(s, tag) ==
    \/ handle_login(s, tag, "test", "test")
    \/ handle_create(s, tag, "INBOX")
    \/ handle_select(s, tag, "INBOX")
    \/ handle_status(s, tag, "INBOX", <<"MESSAGES">>, FALSE)
    \/ \E item \in FetchItems : handle_fetch(s, tag, "1", item)
    \/ handle_search(s, tag, "ALL")
    \/ handle_list(s, tag, "*")
    \/ handle_append(s, tag, "INBOX", TRUE, <<>>)
    \/ \E line \in OrderLines : line[1] = tag /\ run(s, line)

\* a command of session s is being handled
InProgress(t) == t.pc \notin {"new", "idle", "closed"}

\* of the lines sent for the command with this tag, only the last one may be
\* tagged; it carries the tag and ends the command
CompletionLast(lines, tag, t) ==
    \A i \in 1..Len(lines) :
       (Len(lines[i]) >= 1 /\ lines[i][1] \in OrderTags) =>
          /\ i = Len(lines)
          /\ lines[i][1] = tag
          /\ ~InProgress(t)

\* C28: within one session a command line is read only when the command
\* before it has sent all its responses; the tagged completion is the last
\* line sent for its command and carries its tag, so the completions follow
\* each other on the wire in the order of the commands; and nothing is sent
\* to a session that has no command in progress.
C28_ResponsesInOrder ==
    [][\A s \in Sessions :
          LET lines == IF wire'.to = s THEN wire'.lines ELSE <<>> IN
          /\ \A tag \in OrderTags :
                ((wire'.to = s \/ task'[s] # task[s]) /\ Receives(s, tag)) =>
                   /\ task[s].pc = "idle"
                   /\ CompletionLast(lines, tag, task'[s])
                   /\ InProgress(task'[s]) => task'[s].tag = tag
          /\ InProgress(task[s]) =>
                /\ CompletionLast(lines, task[s].tag, task'[s])
                /\ InProgress(task'[s]) => task'[s].tag = task[s].tag
          /\ (task[s].pc \in {"idle", "closed"} /\ lines # <<>>)
                => \E tag \in OrderTags : Receives(s, tag)]_vars

\* a LOGOUT sent under the second tag in a session that had selected INBOX
\* was answered with two lines, the tagged one last
C28_Witness ==
    /\ wire.to = "s1"
    /\ wire.lines = <<IMAPResponseSerializer_bye, <<"A2", "LOGOUT", "completed">>>>
    /\ sess["s1"].selected_mailbox = "INBOX"

\* C29: a mailbox comes into existence only in the step of a CREATE that
\* names it; an APPEND that names a mailbox that does not exist ends without
\* creating the mailbox or storing anything.
C29_MailboxOnlyByCreate ==
    [][/\ \A p \in Paths :
            (p \in dirs' /\ p \notin dirs) =>
               \E s \in Sessions, tag \in Tags :
                  handle_create(s, tag, p[2]) /\ PathOf(s, p[2]) = p
       /\ \A s \in Sessions, body \in Bodies :
            (ap_literal(s, body) /\ task[s].path \notin dirs) =>
               /\ UNCHANGED <<dirs, meta, files>>
               /\ task'[s].pc \in {"idle", "closed"}]_vars

\* C30: when the connection reaches EOF after the continuation prompt of an
\* APPEND and before the literal is complete, the session ends without a
\* tagged response and sends nothing more; neither the APPEND up to the
\* prompt nor its end stores a message, creates a mailbox or changes the
\* uidnext or the messages of the target mailbox.
C30_EofStoresNothing ==
    [][\A s \in Sessions :
          /\ \A tag \in Tags, m \in Mailboxes :
                (handle_append(s, tag, m, TRUE, <<>>) /\ sess[s].authenticated) =>
                   UNCHANGED <<dirs, userdirs, meta, files>>
          /\ ap_eof(s) =>
                /\ task'[s].pc = "closed"
                /\ wire'.to # s
                /\ UNCHANGED <<dirs, userdirs, meta, files>>
          /\ task[s].pc = "closed" =>
                /\ task'[s] = task[s]
                /\ wire'.to # s]_vars

\* a session was closed in the literal of its APPEND to INBOX, which holds
\* one message and uidnext 2 from an APPEND before
C30_Witness ==
    \E s \in Sessions :
       /\ task[s].pc = "closed" /\ task[s].cmd = "APPEND"
       /\ task[s].path = <<"test", "INBOX">>
       /\ meta[<<"test", "INBOX">>] = JsonMeta(2, 1)
       /\ DOMAIN files[<<"test", "INBOX">>] = {1}
       /\ nAppends = 2 /\ returned[<<"test", "INBOX">>].calls = 1
       /\ \A x \in Sessions \ {s} : task[x].pc = "idle"

\* session x is left alone by the step: its session state is unchanged, it
\* is not closed, it is sent nothing, and it stands where it stood in its
\* command (or has completed the file operation that was running in its
\* thread)
LeftAlone(x) ==
    /\ sess'[x] = sess[x]
    /\ wire'.to # x
    /\ task'[x].pc = "closed" <=> task[x].pc = "closed"
    /\ task'[x].pc = "idle" <=> task[x].pc = "idle"
    /\ task'[x].cmd = task[x].cmd /\ task'[x].tag = task[x].tag

get_mailbox_status_alone(p) ==
    LET metadata == IF meta[p].st = "json"
                    THEN [uidnext |-> meta[p].uidnext,
                          uidvalidity |-> meta[p].uidvalidity]
                    ELSE DefaultMetadata
    IN [messages |-> Cardinality(DOMAIN files[p]),
        uidnext |-> metadata.uidnext, uidvalidity |-> metadata.uidvalidity,
        unseen |-> 0, recent |-> 0]

\* the list search_messages returns for the existing mailbox p when it runs
\* with no other call in between: every <uid>.eml, whatever the criteria
search_messages_alone(p, criteria) == sorted(DOMAIN files[p])

\* the mailbox exists and get_mailbox_status can read its metadata
StatusReadable(p) == p \in dirs /\ meta[p].st # "empty"

MessagesAgree(p) ==
    get_mailbox_status_alone(p).messages = Len(search_messages_alone(p, "ALL"))

UnseenAgree(p) ==
    get_mailbox_status_alone(p).unseen = Len(search_messages_alone(p, "UNSEEN"))

UidsBelowUidnext(p) ==
    \A key \in {"ALL", "UNSEEN"} :
        LET uids == search_messages_alone(p, key) IN
        \A i \in DOMAIN uids : uids[i] < get_mailbox_status_alone(p).uidnext

\* C32: in every store state and for every existing mailbox, the status
\* get_mailbox_status reports agrees with search_messages: messages is the
\* number of uids found for ALL, unseen is the number of uids found for
\* UNSEEN, and every uid found is smaller than the reported uidnext.
C32_StatusAgreesWithSearch ==
    \A p \in Paths :
        StatusReadable(p) => MessagesAgree(p) /\ UnseenAgree(p) /\ UidsBelowUidnext(p)

====
